---- MODULE Spec2Model ----
(***************************************************************************)
(* Model of src/CODE/main.rs: the DS18B20 temperature agent.  main() joins  *)
(* the Wi-Fi network (retrying every 5 s), claims the 1-Wire pin, opens the *)
(* MQTT client, publishes one firmware status message, makes one startup    *)
(* acquisition attempt and then polls the sensor forever.                   *)
(*                                                                          *)
(* The 1-Wire driver, the Wi-Fi driver and the ESP-IDF MQTT client are      *)
(* external: each call is modelled by the outcomes its return type allows.  *)
(* Temperatures are exact rationals [num, den] (an i16 converts to f32      *)
(* exactly and the division by 16.0 is exact).                              *)
(***************************************************************************)
EXTENDS Integers, Sequences, FiniteSets, TLC

(***************************************************************************)
(* Bounds of the model.                                                     *)
(***************************************************************************)
\* connect_wifi failures explored before the link must come up
MaxConnectFailures == 3
\* clock reads return a value in 0..MaxClock (epoch milliseconds)
MaxClock == 1

\* topics and payloads of at most MaxStrLen bytes in the publish call taken
\* on its own
MaxStrLen == 2

(***************************************************************************)
(* Program constants.                                                       *)
(***************************************************************************)
WIFI_RETRY_MS    == 5000
MQTT_SETTLE_MS   == 5000
CONVERT_WAIT_MS  == 750
LOOP_DELAY_MS    == 3000
SCRATCHPAD_LEN   == 9
SKIP_ROM         == 204
CONVERT_T        == 68
READ_SCRATCHPAD  == 190
ESP_OK           == 0
TOPIC            == "v1/devices/me/telemetry"

\* values of the external calls
EspErrs == {ESP_OK, -1}
\* esp_mqtt_client_publish returns a message id, negative on failure
MsgIds  == {-1, 0, 1}
\* SystemTime::now() since UNIX_EPOCH, in ms
ClockValues == 0..MaxClock

(***************************************************************************)
(* Fixed-width integer arithmetic.                                          *)
(***************************************************************************)
RECURSIVE BitOr(_, _, _)
\* bitwise | of two n-bit patterns
BitOr(a, b, n) ==
    IF n = 0 THEN 0
    ELSE (IF a % 2 = 1 \/ b % 2 = 1 THEN 1 ELSE 0)
         + 2 * BitOr(a \div 2, b \div 2, n - 1)

RECURSIVE BitXor(_, _, _)
\* bitwise ^ of two n-bit patterns
BitXor(a, b, n) ==
    IF n = 0 THEN 0
    ELSE (((a % 2) + (b % 2)) % 2) + 2 * BitXor(a \div 2, b \div 2, n - 1)

\* the i16 whose bit pattern is u (0 <= u < 65536)
AsI16(u) == IF u >= 32768 THEN u - 65536 ELSE u

\* the 16-bit pattern of an i16
I16Bits(v) == IF v < 0 THEN v + 65536 ELSE v

\* a u8 taken for a signed byte: sign extension
U8AsI16_SignExtended(b) == IF b >= 128 THEN b - 256 ELSE b

\* u8 as i16: zero extension
U8AsI16(b) == b

\* i16 << 8: the bits shifted out are dropped
Shl8I16(v) == AsI16((I16Bits(v) * 256) % 65536)

\* i16 | i16
OrI16(x, y) == AsI16(BitOr(I16Bits(x), I16Bits(y), 16))

\* let temp_raw = (data[1] as i16) << 8 | data[0] as i16;
TempRaw(data) == OrI16(Shl8I16(U8AsI16(data[2])), U8AsI16(data[1]))

\* Celsius(temp_raw as f32 / 16.0)
Celsius(temp_raw) == [num |-> temp_raw, den |-> 16]

\* Celsius::as_f32
as_f32(c) == c

(***************************************************************************)
(* State.                                                                   *)
(***************************************************************************)
VARIABLES
    pc,              \* position of main()
    wifi_failures,   \* connect_wifi calls that returned Err so far
    link_up,         \* connect_wifi has returned Ok
    client,          \* the esp_mqtt_client handle: "null", "inited", "started", "destroyed"
    mqtt_client,     \* main owns a SimpleMqttClient value
    open_calls,      \* calls of SimpleMqttClient::new
    exit_code,       \* "running", or how main ended
    status_log,      \* publish calls made by send_ota_status
    trace,           \* 1-Wire calls of the current acquisition attempt
    data,            \* the scratchpad buffer of the current attempt
    temp_celsius,    \* the temperature decoded in the current attempt
    decoded,         \* temp_celsius has been computed in this attempt
    published,       \* reading publish calls of the current attempt
    elapsed,         \* ms slept since program start / since the loop iteration began
    period,          \* ms slept in the previous loop iteration (0: none yet)
    any_bus_op,      \* some 1-Wire call has been made in this run
    any_reading_pub, \* some reading publish call has been made in this run
    released,        \* times the handle was stopped and destroyed (Drop)
    call             \* a call of SimpleMqttClient::publish taken on its own

vars == <<pc, wifi_failures, link_up, client, mqtt_client, open_calls,
          exit_code, status_log, trace, data, temp_celsius, decoded,
          published, elapsed, period, any_bus_op, any_reading_pub,
          released, call>>

netVars     == <<wifi_failures, link_up>>
mqttVars    == <<client, mqtt_client, open_calls>>
attemptVars == <<trace, data, temp_celsius, decoded, published>>
timeVars    == <<elapsed, period>>
runVars     == <<any_bus_op, any_reading_pub>>
ffiVars     == <<released, call>>

Results == {"Ok", "Err"}

\* let mut data = [0u8; 9];
ZeroData == [i \in 1..SCRATCHPAD_LEN |-> 0]

NoTemp == [num |-> 0, den |-> 1]

\* scratchpad contents the sensor may deliver: temperature register bytes,
\* the remaining registers of a DS18B20, and a trailing byte
RegisterSamples == {<<80, 5>>, <<94, 255>>}
TailSamples == {28, 106}
ScratchpadSamples ==
    { <<r[1], r[2], 75, 70, 127, 255, 12, 16, b8>> :
        r \in RegisterSamples, b8 \in TailSamples }

\* no publish call is being looked at on its own
NoCall == [state |-> "none"]

\* one call on the 1-Wire bus (or the blocking wait between two calls)
BusOp(op, arg, ok) == [op |-> op, arg |-> arg, ok |-> ok]

\* a message id of 0 taken for a failure
publish_ZeroIsError(msg_id) == IF msg_id <= 0 THEN "Err" ELSE "Ok"

\* SimpleMqttClient::publish: Err exactly when the message id is negative
publish(msg_id) == IF msg_id < 0 THEN "Err" ELSE "Ok"

\* one call of SimpleMqttClient::publish and what it returned
PublishCall(fn, payload, msg_id) ==
    [fn |-> fn, topic |-> TOPIC, payload |-> payload, msg_id |-> msg_id,
     result |-> publish(msg_id)]

Init ==
    /\ pc = "connect_wifi"
    /\ wifi_failures = 0
    /\ link_up = FALSE
    /\ client = "null"
    /\ mqtt_client = FALSE
    /\ open_calls = 0
    /\ exit_code = "running"
    /\ status_log = <<>>
    /\ trace = <<>>
    /\ data = ZeroData
    /\ temp_celsius = NoTemp
    /\ decoded = FALSE
    /\ published = <<>>
    /\ elapsed = 0
    /\ period = 0
    /\ any_bus_op = FALSE
    /\ any_reading_pub = FALSE
    /\ released = 0
    /\ call = NoCall

(***************************************************************************)
(* Link establishment: loop { match connect_wifi(&mut wifi) { ... } }        *)
(***************************************************************************)
connect_wifi_Ok ==
    /\ pc = "connect_wifi"
    /\ link_up' = TRUE
    /\ pc' = "pin_setup"
    /\ UNCHANGED <<ffiVars, wifi_failures, mqttVars, exit_code, status_log,
                   attemptVars, timeVars, runVars>>

\* a retry without the sleep
connect_wifi_Err_NoBackoff ==
    /\ pc = "connect_wifi"
    /\ wifi_failures < MaxConnectFailures
    /\ wifi_failures' = wifi_failures + 1
    /\ pc' = "connect_wifi"
    /\ UNCHANGED <<ffiVars, link_up, mqttVars, exit_code, status_log,
                   attemptVars, timeVars, runVars>>

connect_wifi_Err ==
    /\ pc = "connect_wifi"
    /\ wifi_failures < MaxConnectFailures
    /\ wifi_failures' = wifi_failures + 1
    /\ elapsed' = elapsed + WIFI_RETRY_MS
    /\ pc' = "connect_wifi"
    /\ UNCHANGED <<ffiVars, link_up, mqttVars, exit_code, status_log,
                   attemptVars, period, runVars>>

(***************************************************************************)
(* let pin = PinDriver::input_output_od(pin_ds18b20)?;                      *)
(***************************************************************************)
pin_setup ==
    /\ pc = "pin_setup"
    /\ \E r \in Results :
          IF r = "Ok"
          THEN pc' = "mqtt_new" /\ UNCHANGED exit_code
          ELSE pc' = "exit" /\ exit_code' = "pin_setup_failed"
    /\ UNCHANGED <<ffiVars, netVars, mqttVars, status_log, attemptVars, timeVars,
                   runVars>>

(***************************************************************************)
(* SimpleMqttClient::new and the match on its result in main.               *)
(***************************************************************************)
\* esp_mqtt_client_init returned null: Err, main returns Err(e)
mqtt_new_init_null ==
    /\ pc = "mqtt_new"
    /\ open_calls' = open_calls + 1
    /\ pc' = "exit"
    /\ exit_code' = "mqtt_open_failed"
    /\ UNCHANGED <<ffiVars, netVars, client, mqtt_client, status_log, attemptVars,
                   timeVars, runVars>>

\* a start error that main logs and survives
mqtt_new_start_err_Ignored ==
    /\ pc = "mqtt_new"
    /\ \E err \in EspErrs \ {ESP_OK} :
          /\ open_calls' = open_calls + 1
          /\ client' = "inited"
          /\ pc' = "ota_status"
    /\ UNCHANGED <<ffiVars, netVars, mqtt_client, exit_code, status_log, attemptVars,
                   timeVars, runVars>>

\* esp_mqtt_client_start returned an error: Err, main returns Err(e)
mqtt_new_start_err ==
    /\ pc = "mqtt_new"
    /\ \E err \in EspErrs \ {ESP_OK} :
          /\ open_calls' = open_calls + 1
          /\ client' = "inited"
          /\ pc' = "exit"
          /\ exit_code' = "mqtt_open_failed"
    /\ UNCHANGED <<ffiVars, netVars, mqtt_client, status_log, attemptVars, timeVars,
                   runVars>>

\* init and start succeeded: settle delay, Ok(Self { client })
mqtt_new_Ok ==
    /\ pc = "mqtt_new"
    /\ open_calls' = open_calls + 1
    /\ client' = "started"
    /\ mqtt_client' = TRUE
    /\ elapsed' = elapsed + MQTT_SETTLE_MS
    /\ pc' = "ota_status"
    /\ UNCHANGED <<ffiVars, netVars, exit_code, status_log, attemptVars, period,
                   runVars>>

(***************************************************************************)
(* send_ota_status(&mqtt_client, "myFirmware", "1.0.0", "UPDATED")          *)
(***************************************************************************)
StatusPayload ==
    [fw_title |-> "myFirmware", fw_version |-> "1.0.0", fw_state |-> "UPDATED"]

\* send_ota_status(...)? : a failed status publish ends main
send_ota_status_Fatal ==
    /\ pc = "ota_status"
    /\ \E msg_id \in MsgIds :
          /\ status_log' = Append(status_log,
                                  PublishCall("send_ota_status", StatusPayload, msg_id))
          /\ IF publish(msg_id) = "Err"
             THEN pc' = "exit" /\ exit_code' = "status_failed"
             ELSE pc' = "s_reset1" /\ UNCHANGED exit_code
    /\ UNCHANGED <<ffiVars, netVars, mqttVars, attemptVars, timeVars, runVars>>

send_ota_status ==
    /\ pc = "ota_status"
    /\ \E msg_id \in MsgIds :
          status_log' = Append(status_log,
                               PublishCall("send_ota_status", StatusPayload, msg_id))
    /\ pc' = "s_reset1"
    /\ UNCHANGED <<ffiVars, netVars, mqttVars, exit_code, attemptVars, timeVars, runVars>>

(***************************************************************************)
(* Helpers shared by the startup attempt and the periodic loop.             *)
(***************************************************************************)
\* a call of one_wire.reset / write_bytes / read_bytes, then control moves on
BusCall(op, arg, ok, next) ==
    /\ trace' = Append(trace, BusOp(op, arg, ok))
    /\ any_bus_op' = TRUE
    /\ pc' = next
    /\ UNCHANGED <<ffiVars, netVars, mqttVars, exit_code, status_log, data,
                   temp_celsius, decoded, published, timeVars, any_reading_pub>>

\* delay.delay_ms(750)
ConversionWait(next) ==
    /\ trace' = Append(trace, BusOp("delay_ms", <<CONVERT_WAIT_MS>>, TRUE))
    /\ elapsed' = elapsed + CONVERT_WAIT_MS
    /\ pc' = next
    /\ UNCHANGED <<ffiVars, netVars, mqttVars, exit_code, status_log, data,
                   temp_celsius, decoded, published, period, runVars>>

\* one_wire.read_bytes(&mut delay, &mut data) into a fresh [0u8; 9]
ReadScratchpad(okNext, errNext) ==
    \/ \E d \in ScratchpadSamples :
          /\ data' = d
          /\ trace' = Append(trace, BusOp("read_bytes", <<SCRATCHPAD_LEN>>, TRUE))
          /\ pc' = okNext
    \/ /\ data' = ZeroData
       /\ trace' = Append(trace, BusOp("read_bytes", <<SCRATCHPAD_LEN>>, FALSE))
       /\ pc' = errNext

ReadFrame ==
    /\ any_bus_op' = TRUE
    /\ UNCHANGED <<ffiVars, netVars, mqttVars, exit_code, status_log, temp_celsius,
                   decoded, published, timeVars, any_reading_pub>>

\* let temp_raw = ...; let temp_celsius = Celsius(temp_raw as f32 / 16.0);
Decode(next) ==
    /\ temp_celsius' = Celsius(TempRaw(data))
    /\ decoded' = TRUE
    /\ pc' = next
    /\ UNCHANGED <<ffiVars, netVars, mqttVars, exit_code, status_log, trace, data,
                   published, timeVars, runVars>>

\* json!({"temperature": temperature})
PlainPayload(temperature) == [temperature |-> temperature]

\* client_ts taken from a second, later clock read
TimestampedPayload_SecondRead(now, temperature) ==
    [ts |-> now, values |-> [temperature |-> temperature, client_ts |-> now + 1]]

\* json!({"ts": now, "values": {"temperature": temperature, "client_ts": now}})
TimestampedPayload(now, temperature) ==
    [ts |-> now, values |-> [temperature |-> temperature, client_ts |-> now]]

\* json!({"timestamp": now, "temperature": temperature, "client_ts": now})
FullFormatPayload(now, temperature) ==
    [timestamp |-> now, temperature |-> temperature, client_ts |-> now]

\* mqtt_client.publish(...) from one of the three reading senders; the
\* caller only logs an Err and goes on
SendReading(fn, payload, msg_id, next) ==
    /\ published' = Append(published, PublishCall(fn, payload, msg_id))
    /\ any_reading_pub' = TRUE
    /\ pc' = next
    /\ UNCHANGED <<ffiVars, netVars, mqttVars, exit_code, status_log, trace, data,
                   temp_celsius, decoded, timeVars, any_bus_op>>

\* SystemTime::now().duration_since(UNIX_EPOCH).unwrap() on a clock before
\* the epoch
Panic ==
    /\ pc' = "exit"
    /\ exit_code' = "panic"
    /\ UNCHANGED <<call, netVars, status_log, attemptVars, timeVars, runVars>>
    /\ IF mqtt_client
       THEN /\ client' = "destroyed"
            /\ released' = released + 1
            /\ mqtt_client' = FALSE
            /\ UNCHANGED open_calls
       ELSE UNCHANGED <<mqttVars, released>>

send_telemetry(next) ==
    \E msg_id \in MsgIds :
        SendReading("send_telemetry", PlainPayload(as_f32(temp_celsius)),
                    msg_id, next)

send_telemetry_with_timestamp(next) ==
    \E now \in ClockValues, msg_id \in MsgIds :
        IF now < 0 THEN Panic
        ELSE SendReading("send_telemetry_with_timestamp",
                         TimestampedPayload(now, as_f32(temp_celsius)),
                         msg_id, next)

send_telemetry_full_format(next) ==
    \E now \in ClockValues, msg_id \in MsgIds :
        IF now < 0 THEN Panic
        ELSE SendReading("send_telemetry_full_format",
                         FullFormatPayload(now, as_f32(temp_celsius)),
                         msg_id, next)

\* the locals of an attempt go out of scope
EndAttempt ==
    /\ trace' = <<>>
    /\ data' = ZeroData
    /\ temp_celsius' = NoTemp
    /\ decoded' = FALSE
    /\ published' = <<>>

(***************************************************************************)
(* The startup attempt ("direct temperature reading"): nested if-lets,      *)
(* every failure leaves the attempt.                                        *)
(***************************************************************************)
startup_reset1 ==
    /\ pc = "s_reset1"
    /\ \E r \in Results :
          BusCall("reset", <<>>, r = "Ok",
                  IF r = "Ok" THEN "s_write1" ELSE "loop_entry")

\* let _ = one_wire.write_bytes(...) : the write result dropped
startup_write_convert_ResultDropped ==
    /\ pc = "s_write1"
    /\ \E r \in Results :
          BusCall("write_bytes", <<SKIP_ROM, CONVERT_T>>, r = "Ok", "s_delay")

startup_write_convert ==
    /\ pc = "s_write1"
    /\ \E r \in Results :
          BusCall("write_bytes", <<SKIP_ROM, CONVERT_T>>, r = "Ok",
                  IF r = "Ok" THEN "s_delay" ELSE "loop_entry")

startup_delay ==
    /\ pc = "s_delay"
    /\ ConversionWait("s_reset2")

startup_reset2 ==
    /\ pc = "s_reset2"
    /\ \E r \in Results :
          BusCall("reset", <<>>, r = "Ok",
                  IF r = "Ok" THEN "s_write2" ELSE "loop_entry")

startup_write_read ==
    /\ pc = "s_write2"
    /\ \E r \in Results :
          BusCall("write_bytes", <<SKIP_ROM, READ_SCRATCHPAD>>, r = "Ok",
                  IF r = "Ok" THEN "s_read" ELSE "loop_entry")

startup_read ==
    /\ pc = "s_read"
    /\ ReadScratchpad("s_decode", "loop_entry")
    /\ ReadFrame

startup_decode ==
    /\ pc = "s_decode"
    /\ Decode("s_send_telemetry")

startup_send_telemetry ==
    /\ pc = "s_send_telemetry"
    /\ send_telemetry("s_send_telemetry_with_timestamp")

startup_send_telemetry_with_timestamp ==
    /\ pc = "s_send_telemetry_with_timestamp"
    /\ send_telemetry_with_timestamp("s_send_telemetry_full_format")

startup_send_telemetry_full_format ==
    /\ pc = "s_send_telemetry_full_format"
    /\ send_telemetry_full_format("loop_entry")

\* info!("Starting temperature readings every 3 seconds..."); loop {
loop_entry ==
    /\ pc = "loop_entry"
    /\ EndAttempt
    /\ elapsed' = 0
    /\ period' = 0
    /\ pc' = "l_reset1"
    /\ UNCHANGED <<ffiVars, netVars, mqttVars, exit_code, status_log, runVars>>

(***************************************************************************)
(* The periodic loop: only the first reset and the read are matched, the    *)
(* results of the two writes and of the second reset are dropped (let _ =). *)
(***************************************************************************)
\* one_wire.reset(&mut delay)? : a bus fault ends main
loop_reset1_Propagates ==
    /\ pc = "l_reset1"
    /\ \E r \in Results :
          BusCall("reset", <<>>, r = "Ok",
                  IF r = "Ok" THEN "l_write1" ELSE "exit")

loop_reset1 ==
    /\ pc = "l_reset1"
    /\ \E r \in Results :
          BusCall("reset", <<>>, r = "Ok",
                  IF r = "Ok" THEN "l_write1" ELSE "l_delay")

\* the conversion wait left out
loop_write_convert_NoWait ==
    /\ pc = "l_write1"
    /\ \E r \in Results :
          BusCall("write_bytes", <<SKIP_ROM, CONVERT_T>>, r = "Ok", "l_reset2")

loop_write_convert ==
    /\ pc = "l_write1"
    /\ \E r \in Results :
          BusCall("write_bytes", <<SKIP_ROM, CONVERT_T>>, r = "Ok", "l_wait")

loop_wait ==
    /\ pc = "l_wait"
    /\ ConversionWait("l_reset2")

loop_reset2 ==
    /\ pc = "l_reset2"
    /\ \E r \in Results :
          BusCall("reset", <<>>, r = "Ok", "l_write2")

loop_write_read ==
    /\ pc = "l_write2"
    /\ \E r \in Results :
          BusCall("write_bytes", <<SKIP_ROM, READ_SCRATCHPAD>>, r = "Ok", "l_read")

\* let _ = one_wire.read_bytes(...) : the read result dropped
loop_read_ResultDropped ==
    /\ pc = "l_read"
    /\ ReadScratchpad("l_decode", "l_decode")
    /\ ReadFrame

\* one_wire.read_bytes(...)? : a failed read ends main
loop_read_Propagates ==
    /\ pc = "l_read"
    /\ ReadScratchpad("l_decode", "exit")
    /\ ReadFrame

loop_read ==
    /\ pc = "l_read"
    /\ ReadScratchpad("l_decode", "l_delay")
    /\ ReadFrame

loop_decode ==
    /\ pc = "l_decode"
    /\ Decode("l_send_telemetry")

\* the canonical reading sent first
loop_send_telemetry_OutOfOrder ==
    /\ pc = "l_send_telemetry"
    /\ send_telemetry_full_format("l_send_telemetry_with_timestamp")

loop_send_telemetry ==
    /\ pc = "l_send_telemetry"
    /\ send_telemetry("l_send_telemetry_with_timestamp")

\* a failed publish that abandons the rest of the cycle
loop_send_telemetry_with_timestamp_Abandons ==
    /\ pc = "l_send_telemetry_with_timestamp"
    /\ \E now \in ClockValues, msg_id \in MsgIds :
          SendReading("send_telemetry_with_timestamp",
                      TimestampedPayload(now, as_f32(temp_celsius)), msg_id,
                      IF publish(msg_id) = "Err" THEN "l_delay"
                      ELSE "l_send_telemetry_full_format")

loop_send_telemetry_with_timestamp ==
    /\ pc = "l_send_telemetry_with_timestamp"
    /\ send_telemetry_with_timestamp("l_send_telemetry_full_format")

\* a failed publish answered by stopping the client
loop_send_telemetry_full_format_Stops ==
    /\ pc = "l_send_telemetry_full_format"
    /\ \E now \in ClockValues, msg_id \in MsgIds :
          /\ published' = Append(published,
                 PublishCall("send_telemetry_full_format",
                             FullFormatPayload(now, as_f32(temp_celsius)), msg_id))
          /\ client' = IF publish(msg_id) = "Err" THEN "inited" ELSE client
    /\ any_reading_pub' = TRUE
    /\ pc' = "l_delay"
    /\ UNCHANGED <<ffiVars, netVars, mqtt_client, open_calls, exit_code,
                   status_log, trace, data, temp_celsius, decoded, timeVars,
                   any_bus_op>>

loop_send_telemetry_full_format ==
    /\ pc = "l_send_telemetry_full_format"
    /\ send_telemetry_full_format("l_delay")

\* delay.delay_ms(3000); } -- and the next iteration begins
loop_delay ==
    /\ pc = "l_delay"
    /\ EndAttempt
    /\ period' = elapsed + LOOP_DELAY_MS
    /\ elapsed' = 0
    /\ pc' = "l_reset1"
    /\ UNCHANGED <<ffiVars, netVars, mqttVars, exit_code, status_log, runVars>>

Next ==
    \/ connect_wifi_Ok
    \/ connect_wifi_Err
    \/ pin_setup
    \/ mqtt_new_init_null
    \/ mqtt_new_start_err
    \/ mqtt_new_Ok
    \/ send_ota_status
    \/ startup_reset1
    \/ startup_write_convert
    \/ startup_delay
    \/ startup_reset2
    \/ startup_write_read
    \/ startup_read
    \/ startup_decode
    \/ startup_send_telemetry
    \/ startup_send_telemetry_with_timestamp
    \/ startup_send_telemetry_full_format
    \/ loop_entry
    \/ loop_reset1
    \/ loop_write_convert
    \/ loop_wait
    \/ loop_reset2
    \/ loop_write_read
    \/ loop_read
    \/ loop_decode
    \/ loop_send_telemetry
    \/ loop_send_telemetry_with_timestamp
    \/ loop_send_telemetry_full_format
    \/ loop_delay

Spec == Init /\ [][Next]_vars

TypeOK ==
    /\ wifi_failures \in 0..MaxConnectFailures
    /\ link_up \in BOOLEAN
    /\ client \in {"null", "inited", "started", "destroyed"}
    /\ released \in 0..1
    /\ open_calls \in 0..1
    /\ exit_code \in {"running", "pin_setup_failed", "mqtt_open_failed", "panic"}
    /\ Len(trace) <= 6
    /\ Len(published) <= 3

(***************************************************************************)
(* The decoder on its own: every register pair a scratchpad read can leave  *)
(* in data[0], data[1], at the decode step of either acquisition path.      *)
(***************************************************************************)
U8_MAX == 255

FullTrace ==
    << BusOp("reset", <<>>, TRUE),
       BusOp("write_bytes", <<SKIP_ROM, CONVERT_T>>, TRUE),
       BusOp("delay_ms", <<CONVERT_WAIT_MS>>, TRUE),
       BusOp("reset", <<>>, TRUE),
       BusOp("write_bytes", <<SKIP_ROM, READ_SCRATCHPAD>>, TRUE),
       BusOp("read_bytes", <<SCRATCHPAD_LEN>>, TRUE) >>

DecodeInit ==
    /\ pc \in {"s_decode", "l_decode"}
    /\ wifi_failures = 0
    /\ link_up = TRUE
    /\ client = "started"
    /\ mqtt_client = TRUE
    /\ open_calls = 1
    /\ exit_code = "running"
    /\ status_log = <<PublishCall("send_ota_status", StatusPayload, 1)>>
    /\ trace = FullTrace
    /\ \E b0 \in 0..U8_MAX, b1 \in 0..U8_MAX :
          data = [ZeroData EXCEPT ![1] = b0, ![2] = b1]
    /\ temp_celsius = NoTemp
    /\ decoded = FALSE
    /\ published = <<>>
    /\ elapsed = CONVERT_WAIT_MS
    /\ period = 0
    /\ any_bus_op = TRUE
    /\ any_reading_pub = FALSE
    /\ released = 0
    /\ call = NoCall

DecodeNext ==
    \/ startup_decode
    \/ loop_decode

SpecDecode == DecodeInit /\ [][DecodeNext]_vars

(***************************************************************************)
(* Vocabulary of the properties.                                            *)
(***************************************************************************)
LoopPcs ==
    {"l_reset1", "l_write1", "l_wait", "l_reset2", "l_write2", "l_read",
     "l_decode", "l_send_telemetry", "l_send_telemetry_with_timestamp",
     "l_send_telemetry_full_format", "l_delay"}

StartupPcs ==
    {"s_reset1", "s_write1", "s_delay", "s_reset2", "s_write2", "s_read",
     "s_decode", "s_send_telemetry", "s_send_telemetry_with_timestamp",
     "s_send_telemetry_full_format", "loop_entry"}

BusOpNames == {"reset", "write_bytes", "read_bytes"}

\* some bus call of the current attempt returned Err
BusFaultInAttempt == \E i \in DOMAIN trace : ~trace[i].ok

\* the scratchpad read of the current attempt returned Ok
ReadOk ==
    /\ trace # <<>>
    /\ trace[Len(trace)].op = "read_bytes"
    /\ trace[Len(trace)].ok

\* one shift step of the reflected polynomial 0x31 (0x8C)
Crc8Shift ==
    [crc \in 0..255 |->
        IF crc % 2 = 1 THEN BitXor(crc \div 2, 140, 8) ELSE crc \div 2]

\* eight shift steps: one byte folded into the checksum
Crc8Byte(crc) ==
    Crc8Shift[Crc8Shift[Crc8Shift[Crc8Shift[
    Crc8Shift[Crc8Shift[Crc8Shift[Crc8Shift[crc]]]]]]]]

RECURSIVE Crc8Upto(_, _)
\* CRC-8 of bytes buf[1..n]
Crc8Upto(buf, n) ==
    IF n = 0 THEN 0
    ELSE Crc8Byte(BitXor(Crc8Upto(buf, n - 1), buf[n], 8))

\* the checksum a valid scratchpad carries in its last byte
ScratchpadCrc(buf) == Crc8Upto(buf, SCRATCHPAD_LEN - 1)

ReadingOrder ==
    <<"send_telemetry", "send_telemetry_with_timestamp",
      "send_telemetry_full_format">>

(***************************************************************************)
(* Properties.                                                              *)
(***************************************************************************)

\* C1: in a cycle of the periodic loop, a bus call that failed (first reset,
\* either write, second reset or the read) means no publish call is made in
\* that cycle.
C1_FaultyCycleNeverPublishes ==
    (pc \in LoopPcs /\ BusFaultInAttempt) => published = <<>>

\* C2: in an acquisition attempt, no bus call (reset, write, read) follows a
\* reset or write that failed.
C2_AbortAfterResetOrWriteFailure ==
    \A i \in DOMAIN trace :
        (trace[i].op \in {"reset", "write_bytes"} /\ ~trace[i].ok)
            => \A j \in DOMAIN trace : j > i => trace[j].op \notin BusOpNames

\* C3: a scratchpad whose last byte is not the CRC-8 of the first eight is
\* rejected: no temperature is decoded from it and nothing is published.
C3_ChecksumMismatchRejected ==
    (ReadOk /\ data[SCRATCHPAD_LEN] # ScratchpadCrc(data))
        => (~decoded /\ published = <<>>)

\* C4: for every register pair (b0, b1) the decoded temperature, in
\* sixteenths of a degree, is the signed 16-bit value of b0 + 256*b1;
\* 0x0550 gives 1360/16 and 0xFF5E gives -162/16; every pair is decoded.
C4_DecodeIsSignedLittleEndian ==
    decoded =>
        LET u == data[1] + 256 * data[2]
            s == IF u >= 32768 THEN u - 65536 ELSE u
        IN  /\ temp_celsius.num * 16 = s * temp_celsius.den
            /\ temp_celsius.den = 16
            /\ (data[1] = 80 /\ data[2] = 5) => temp_celsius.num = 1360
            /\ (data[1] = 94 /\ data[2] = 255) => temp_celsius.num = -162

C4_Witness ==
    /\ decoded
    /\ data[1] = 94
    /\ data[2] = 255
    /\ temp_celsius = [num |-> -162, den |-> 16]

\* C5: a reading publish is made only after the read of that attempt
\* returned Ok and its temperature was decoded, and the publishes come in
\* the order plain, timestamped, canonical.
C5_PublishAfterDecodeInOrder ==
    /\ published # <<>> => (ReadOk /\ decoded)
    /\ \A i \in DOMAIN published : published[i].fn = ReadingOrder[i]
    /\ Len(published) <= 3
    /\ pc \in {"s_send_telemetry", "l_send_telemetry"} => decoded

C5_Witness ==
    /\ pc = "l_delay"
    /\ Len(published) = 3
    /\ decoded

\* C6: once an attempt has decoded a temperature, each of the three reading
\* publishes is followed by the next one whatever message id it got, the
\* attempt ends with three publish calls, and the loop starts the next cycle.
C6_AllThreePublishesAttempted ==
    [][ /\ (pc \in {"s_decode", "l_decode"}) => Len(published') = 0
        /\ (pc \in {"s_send_telemetry", "l_send_telemetry"})
              => (Len(published') = 1 /\ pc' \in
                     {"s_send_telemetry_with_timestamp",
                      "l_send_telemetry_with_timestamp"})
        /\ (pc \in {"s_send_telemetry_with_timestamp",
                    "l_send_telemetry_with_timestamp"})
              => (Len(published') = 2 /\ pc' \in
                     {"s_send_telemetry_full_format",
                      "l_send_telemetry_full_format"})
        /\ (pc \in {"s_send_telemetry_full_format",
                    "l_send_telemetry_full_format"})
              => (Len(published') = 3 /\ pc' \in {"loop_entry", "l_delay"})
        /\ (pc \in {"loop_entry", "l_delay"})
              => (pc' = "l_reset1" /\ (decoded => Len(published) = 3))
      ]_vars

C6_Witness ==
    /\ pc = "l_delay"
    /\ Len(published) = 3
    /\ \A i \in 1..3 : published[i].msg_id < 0

\* C7: the status message is published once: after the client was opened,
\* before any bus call and any reading publish; a failed status publish
\* neither ends the run nor is repeated.
C7_StatusOnceBeforeReadings ==
    /\ Len(status_log) <= 1
    /\ status_log # <<>> => (mqtt_client /\ client = "started")
    /\ status_log = <<>> => (~any_bus_op /\ ~any_reading_pub)
    /\ pc \in (StartupPcs \cup LoopPcs) => Len(status_log) = 1
    /\ (status_log # <<>> /\ status_log[1].msg_id < 0)
          => (pc \in (StartupPcs \cup LoopPcs) /\ exit_code = "running")

C7_Witness ==
    /\ Len(status_log) = 1
    /\ status_log[1].msg_id < 0
    /\ pc = "l_delay"
    /\ Len(published) = 3

\* C8: while connect_wifi keeps failing the agent stays in the connect loop,
\* having slept 5 s per failure and made no client or bus call; the client
\* is opened only with the link up, and at most once.
C8_OpenOnlyAfterLinkUp ==
    /\ ~link_up => pc = "connect_wifi"
    /\ pc = "connect_wifi" =>
          /\ ~link_up
          /\ elapsed = 5000 * wifi_failures
          /\ open_calls = 0
          /\ client = "null"
          /\ ~mqtt_client
          /\ status_log = <<>>
          /\ ~any_bus_op
          /\ ~any_reading_pub
    /\ open_calls > 0 => link_up
    /\ open_calls <= 1

C8_Witness ==
    /\ wifi_failures = 3
    /\ link_up
    /\ open_calls = 1
    /\ mqtt_client

\* C9: when SimpleMqttClient::new returns Err (init null or start error)
\* main has returned: one open call, no status publish, no reading publish,
\* no bus call.
C9_OpenFailureIsFatal ==
    (open_calls > 0 /\ ~mqtt_client) =>
        /\ pc = "exit"
        /\ exit_code = "mqtt_open_failed"
        /\ open_calls = 1
        /\ status_log = <<>>
        /\ ~any_bus_op
        /\ ~any_reading_pub

C9_Witness ==
    /\ pc = "exit"
    /\ open_calls = 1
    /\ client = "inited"
    /\ ~mqtt_client

\* C10 as stated: with the link up, main ends only by a channel-open failure.
C10_OnlyOpenFailureTerminates ==
    (link_up /\ pc = "exit") => exit_code = "mqtt_open_failed"

\* C10 amended: with the link up, main ends only by a pin-setup failure or a
\* channel-open failure, both before the first publish and the first bus
\* call; with the client open, no bus, publish or clock outcome ends the run.
C10_OnlyPinOrOpenFailureTerminates ==
    /\ pc = "exit" =>
          /\ exit_code \in {"pin_setup_failed", "mqtt_open_failed"}
          /\ ~mqtt_client
          /\ status_log = <<>>
          /\ ~any_bus_op
          /\ ~any_reading_pub
    /\ mqtt_client => (pc # "exit" /\ exit_code = "running")
    /\ (any_bus_op \/ any_reading_pub \/ status_log # <<>>) => mqtt_client

C10_Witness ==
    /\ pc = "l_delay"
    /\ BusFaultInAttempt
    /\ Len(published) = 3
    /\ \A i \in 1..3 : published[i].msg_id < 0
    /\ status_log[1].msg_id < 0

\* the temperature a reading payload carries
PayloadTemperature(p) ==
    IF p.fn = "send_telemetry_with_timestamp"
    THEN p.payload.values.temperature
    ELSE p.payload.temperature

\* C11: a handle created by SimpleMqttClient::new is stopped and destroyed
\* exactly once by the time main has ended, also when the start call failed.
C11_EveryHandleReleasedOnce ==
    /\ released <= 1
    /\ (pc = "exit" /\ client # "null") => (released = 1 /\ client = "destroyed")

\* C12: a publish call, failed or not, leaves the client as it was: the
\* handle is not stopped, destroyed or reopened, and every publish of the
\* run goes to the one started handle.
C12_PublishLeavesChannelUnchanged ==
    [][ (published' # published \/ status_log' # status_log)
          => /\ UNCHANGED <<client, mqtt_client, open_calls, released>>
             /\ client = "started"
             /\ open_calls = 1
      ]_vars

C12_Witness ==
    /\ pc = "l_delay"
    /\ Len(published) = 3
    /\ published[1].result = "Err"
    /\ published[3].result = "Ok"
    /\ status_log[1].result = "Err"
    /\ client = "started"

\* C13: a loop iteration lasts 3000 ms from its start to the start of the
\* next one, the conversion wait included.
C13_CyclePeriodIs3s ==
    (pc \in LoopPcs /\ period # 0) => period = 3000

\* C14: a timestamped reading has ts = values.client_ts and a canonical
\* reading has timestamp = client_ts; for every clock value T both builders
\* put T in both fields.
C14_TimestampsFromOneClockRead ==
    /\ \A i \in DOMAIN published :
          /\ published[i].fn = "send_telemetry_with_timestamp"
                => published[i].payload.ts = published[i].payload.values.client_ts
          /\ published[i].fn = "send_telemetry_full_format"
                => published[i].payload.timestamp = published[i].payload.client_ts
    /\ \A T \in ClockValues :
          /\ TimestampedPayload(T, temp_celsius).ts = T
          /\ TimestampedPayload(T, temp_celsius).values.client_ts = T
          /\ FullFormatPayload(T, temp_celsius).timestamp = T
          /\ FullFormatPayload(T, temp_celsius).client_ts = T

C14_Witness ==
    /\ Len(published) = 3
    /\ published[2].payload.ts = 1
    /\ published[3].payload.timestamp = 0

\* C15: the calls of an attempt are a prefix of reset, write [0xCC,0x44],
\* wait 750 ms, reset, write [0xCC,0xBE], read 9 bytes: a read comes sixth,
\* after the other five, and once.
C15_FixedBusSequence ==
    /\ Len(trace) <= 6
    /\ \A i \in DOMAIN trace :
          /\ trace[i].op = FullTrace[i].op
          /\ trace[i].arg = FullTrace[i].arg
    /\ \A i \in DOMAIN trace : trace[i].op = "read_bytes" => i = 6

C15_Witness ==
    /\ pc \in LoopPcs
    /\ Len(trace) = 6
    /\ trace[6].op = "read_bytes"
    /\ ~trace[2].ok

\* C18: in the startup attempt a failed step is the last call of the
\* attempt, no reading is published, and control is at the loop entry.
C18_StartupAttemptAbortsOnFailure ==
    (pc \in StartupPcs /\ BusFaultInAttempt) =>
        /\ published = <<>>
        /\ ~decoded
        /\ \A i \in DOMAIN trace : ~trace[i].ok => i = Len(trace)
        /\ pc = "loop_entry"

C18_Witness ==
    /\ pc = "loop_entry"
    /\ Len(trace) = 5
    /\ ~trace[5].ok
    /\ published = <<>>

\* C19: every reading published in an attempt carries the temperature
\* decoded from the scratchpad that the read of this attempt returned.
C19_PublishedTemperatureIsFresh ==
    \A i \in DOMAIN published :
        /\ ReadOk
        /\ data \in ScratchpadSamples
        /\ PayloadTemperature(published[i]) = Celsius(TempRaw(data))
        /\ PayloadTemperature(published[i]) = PayloadTemperature(published[1])

C19_Witness ==
    /\ pc = "l_delay"
    /\ period # 0
    /\ Len(published) = 3
    /\ PayloadTemperature(published[3]) = [num |-> -162, den |-> 16]

(***************************************************************************)
(* The run under the scheduling of a single thread whose blocking calls     *)
(* all return: some step is taken whenever one is possible.                 *)
(***************************************************************************)
SpecLive == Init /\ [][Next]_vars /\ WF_vars(Next)

\* C16: once the client is open, whatever the bus and publish outcomes,
\* every point of the run is followed by the end of a cycle and every end
\* of a cycle by the start of the next one; main never ends.
C16_LoopRunsForever ==
    /\ (mqtt_client /\ pc # "l_delay") ~> (pc = "l_delay")
    /\ (pc = "l_delay") ~> (pc = "l_reset1")
    /\ [](mqtt_client => pc # "exit")

C16_Witness ==
    /\ pc = "l_reset1"
    /\ period # 0
    /\ mqtt_client
    /\ status_log[1].result = "Err"

(***************************************************************************)
(* SimpleMqttClient::publish on its own: any topic and payload bytes, any   *)
(* message id esp_mqtt_client_publish can return.                           *)
(***************************************************************************)
NUL == 0

\* bytes a &str can hold: NUL and a letter
CharSamples == {NUL, 116}

StrSamples == UNION { [1..n -> CharSamples] : n \in 0..MaxStrLen }

\* CString::new: Err on an interior NUL byte
CStringNew(str) == IF \E i \in DOMAIN str : str[i] = NUL THEN "Err" ELSE "Ok"

\* fn publish(&self, topic: &str, data: &str) -> Result<()>; msg_id is what
\* esp_mqtt_client_publish returns if it is called
SimpleMqttClient_publish(topic, payload, msg_id) ==
    IF CStringNew(topic) = "Err"
    THEN [result |-> "Err", client_publish_calls |-> 0]
    ELSE IF CStringNew(payload) = "Err"
    THEN [result |-> "Err", client_publish_calls |-> 0]
    ELSE [result |-> publish(msg_id), client_publish_calls |-> 1]

PublishInit ==
    /\ pc = "publish"
    /\ wifi_failures = 0
    /\ link_up = TRUE
    /\ client = "started"
    /\ mqtt_client = TRUE
    /\ open_calls = 1
    /\ exit_code = "running"
    /\ status_log = <<>>
    /\ trace = <<>>
    /\ data = ZeroData
    /\ temp_celsius = NoTemp
    /\ decoded = FALSE
    /\ published = <<>>
    /\ elapsed = MQTT_SETTLE_MS
    /\ period = 0
    /\ any_bus_op = FALSE
    /\ any_reading_pub = FALSE
    /\ released = 0
    /\ \E topic \in StrSamples, payload \in StrSamples, msg_id \in MsgIds :
          call = [state |-> "pending", topic |-> topic, payload |-> payload,
                  msg_id |-> msg_id, result |-> "none",
                  client_publish_calls |-> 0]

publish_call ==
    /\ pc = "publish"
    /\ call.state = "pending"
    /\ LET out == SimpleMqttClient_publish(call.topic, call.payload, call.msg_id)
       IN  call' = [call EXCEPT !.state = "returned",
                                !.result = out.result,
                                !.client_publish_calls = out.client_publish_calls]
    /\ UNCHANGED <<pc, netVars, mqttVars, exit_code, status_log, attemptVars,
                   timeVars, runVars, released>>

PublishNext == publish_call

SpecPublish == PublishInit /\ [][PublishNext]_vars

\* C17: publish returns Ok exactly when the client's publish returned a
\* non-negative message id and Err exactly when it returned a negative one;
\* with a NUL byte in the topic or the payload it returns Err and the
\* client's publish is not called.
C17_PublishResultFollowsMessageId ==
    call.state = "returned" =>
        LET nul == \/ \E i \in DOMAIN call.topic : call.topic[i] = 0
                   \/ \E i \in DOMAIN call.payload : call.payload[i] = 0
        IN  /\ nul => (call.result = "Err" /\ call.client_publish_calls = 0)
            /\ ~nul => /\ call.client_publish_calls = 1
                       /\ call.result = "Ok" <=> call.msg_id >= 0
                       /\ call.result = "Err" <=> call.msg_id < 0

C17_Witness ==
    /\ call.state = "returned"
    /\ call.topic = <<116>>
    /\ call.payload = <<116, 116>>
    /\ call.msg_id = 0
    /\ call.result = "Ok"
    /\ call.client_publish_calls = 1

====
